---- MODULE Spec2Model ----
(***************************************************************************)
(* PropertyData MCP server (src/src/index.ts): the start-up credential      *)
(* check, the tool catalog, the handler table, the request executor         *)
(* propertydataCall and the list_tools / call_tool request handlers.        *)
(*                                                                          *)
(* A text is a sequence of chunks; the string it denotes is the             *)
(* concatenation of its chunks.  Data that the program escapes or encodes   *)
(* (argument values, response bodies, the credential) is held one character *)
(* per chunk; literals of the program are single chunks.                    *)
(***************************************************************************)
EXTENDS Integers, Sequences, FiniteSets, TLC

\* Bounds of the model.
\* MaxArgs: the largest number of keys in a call's arguments object.
MaxArgs == 2
\* MaxInFlight: the number of call_tool requests the transport keeps open at once.
MaxInFlight == 2

----------------------------------------------------------------------------
\* JavaScript values, tagged by kind.  An object is a sequence of
\* <<key, value>> pairs in insertion order.

Undefined == [t |-> "undefined"]
Null == [t |-> "null"]
Bool(b) == [t |-> "bool", b |-> b]
Num(n) == [t |-> "num", n |-> n]
Str(s) == [t |-> "str", s |-> s]
Obj(o) == [t |-> "obj", o |-> o]

\* An Error object, its message a text: `${error}` is name + ": " + message.
Err(name, message) == [name |-> name, message |-> message]
ErrorText(e) == <<e.name, ": ">> \o e.message

HasOwn(o, k) == \E i \in 1..Len(o) : o[i][1] = k
Get(o, k) ==
  IF HasOwn(o, k) THEN o[CHOOSE i \in 1..Len(o) : o[i][1] = k][2] ELSE Undefined

Digit(d) == <<"0", "1", "2", "3", "4", "5", "6", "7", "8", "9">>[d + 1]

RECURSIVE NumberToString(_)
NumberToString(n) ==
  IF n < 10 THEN <<Digit(n)>> ELSE NumberToString(n \div 10) \o <<Digit(n % 10)>>

\* String(value), src/src/index.ts:38.  A value that came from JSON is never
\* callable, so an object with an own "toString" property has no usable
\* toString, and Object.prototype.valueOf returns the object: TypeError.
StringThrows(v) == v.t = "obj" /\ HasOwn(v.o, "toString")
StringError == Err("TypeError", <<"Cannot convert object to primitive value">>)
String(v) ==
  CASE v.t = "undefined" -> <<"undefined">>
    [] v.t = "null" -> <<"null">>
    [] v.t = "bool" -> IF v.b THEN <<"true">> ELSE <<"false">>
    [] v.t = "num" -> NumberToString(v.n)
    [] v.t = "str" -> v.s
    [] v.t = "obj" -> <<"[object Object]">>

\* URLSearchParams serialisation (application/x-www-form-urlencoded), as
\* url.searchParams.append and url.toString() produce it, per chunk.
\* (a variant that percent-encodes the space)
UrlEncodeChunkPercent(c) ==
  CASE c = " " -> "%20"
    [] c = "&" -> "%26"
    [] c = "=" -> "%3D"
    [] c = "+" -> "%2B"
    [] c = "%" -> "%25"
    [] c = "?" -> "%3F"
    [] c = "#" -> "%23"
    [] c = "/" -> "%2F"
    [] c = "[object Object]" -> "%5Bobject%20Object%5D"
    [] OTHER -> c
\* (a variant that encodes nothing)
UrlEncodeChunkRaw(c) == c
UrlEncodeChunk(c) ==
  CASE c = " " -> "+"
    [] c = "&" -> "%26"
    [] c = "=" -> "%3D"
    [] c = "+" -> "%2B"
    [] c = "%" -> "%25"
    [] c = "?" -> "%3F"
    [] c = "#" -> "%23"
    [] c = "/" -> "%2F"
    [] c = "[object Object]" -> "%5Bobject+Object%5D"
    [] OTHER -> c
UrlEncode(text) == [i \in 1..Len(text) |-> UrlEncodeChunk(text[i])]

\* JSON.stringify of a string: quoted, with the quote, the backslash and the
\* newline escaped.
JsonEscapeChunk(c) ==
  CASE c = "\"" -> "\\\""
    [] c = "\\" -> "\\\\"
    [] c = "\n" -> "\\n"
    [] OTHER -> c
JsonQuote(text) ==
  <<"\"">> \o [i \in 1..Len(text) |-> JsonEscapeChunk(text[i])] \o <<"\"">>

Indent(n) == [i \in 1..n |-> "  "]

\* JSON.stringify(value, null, 2), src/src/index.ts:891.
RECURSIVE Stringify(_, _)
RECURSIVE StringifyMembers(_, _)
StringifyMembers(o, depth) ==
  IF o = <<>> THEN <<>>
  ELSE Indent(depth) \o JsonQuote(<<o[1][1]>>) \o <<": ">>
       \o Stringify(o[1][2], depth)
       \o (IF Len(o) > 1 THEN <<",", "\n">> ELSE <<"\n">>)
       \o StringifyMembers(Tail(o), depth)
Stringify(v, depth) ==
  CASE v.t = "null" -> <<"null">>
    [] v.t = "bool" -> IF v.b THEN <<"true">> ELSE <<"false">>
    [] v.t = "num" -> NumberToString(v.n)
    [] v.t = "str" -> JsonQuote(v.s)
    [] v.t = "obj" ->
         IF v.o = <<>> THEN <<"{}">>
         ELSE <<"{", "\n">> \o StringifyMembers(v.o, depth + 1)
              \o Indent(depth) \o <<"}">>
JSONstringify(v) == Stringify(v, 0)

----------------------------------------------------------------------------
\* JSON.parse of a response body (response.json(), src/src/index.ts:50):
\* compact JSON of objects, strings, natural numbers and the three literals.
\* A parse result is [ok, v, rest]; JSONparse fails unless all input is used.
\* A member name is one chunk, like every key of the program.

ParseFail == [ok |-> FALSE]
IsDigit(c) == c \in {"0", "1", "2", "3", "4", "5", "6", "7", "8", "9"}
DigitValue(c) == CHOOSE d \in 0..9 : Digit(d) = c

RECURSIVE ParseDigits(_, _)
ParseDigits(text, acc) ==
  IF text # <<>> /\ IsDigit(Head(text))
  THEN ParseDigits(Tail(text), 10 * acc + DigitValue(Head(text)))
  ELSE [ok |-> TRUE, v |-> Num(acc), rest |-> text]

JsonUnescapeChunk(c) ==
  CASE c = "\\\"" -> "\""
    [] c = "\\\\" -> "\\"
    [] c = "\\n" -> "\n"
    [] OTHER -> c

\* The characters after an opening quote, up to the closing one.
RECURSIVE ParseChars(_, _)
ParseChars(text, acc) ==
  IF text = <<>> \/ Head(text) = "\n" THEN ParseFail
  ELSE IF Head(text) = "\"" THEN [ok |-> TRUE, v |-> Str(acc), rest |-> Tail(text)]
  ELSE ParseChars(Tail(text), Append(acc, JsonUnescapeChunk(Head(text))))

RECURSIVE ParseValue(_)
RECURSIVE ParseMembers(_, _)
ParseMembers(text, acc) ==
  IF text = <<>> \/ Head(text) # "\"" THEN ParseFail
  ELSE LET k == ParseChars(Tail(text), <<>>) IN
       IF ~k.ok \/ Len(k.v.s) # 1 \/ k.rest = <<>> \/ Head(k.rest) # ":"
       THEN ParseFail
       ELSE LET m == ParseValue(Tail(k.rest)) IN
            IF ~m.ok \/ m.rest = <<>> THEN ParseFail
            ELSE LET o == Append(acc, <<k.v.s[1], m.v>>) IN
                 IF Head(m.rest) = "}"
                 THEN [ok |-> TRUE, v |-> Obj(o), rest |-> Tail(m.rest)]
                 ELSE IF Head(m.rest) = "," THEN ParseMembers(Tail(m.rest), o)
                 ELSE ParseFail
ParseValue(text) ==
  IF text = <<>> THEN ParseFail
  ELSE LET c == Head(text) IN
       CASE c = "null" -> [ok |-> TRUE, v |-> Null, rest |-> Tail(text)]
         [] c = "true" -> [ok |-> TRUE, v |-> Bool(TRUE), rest |-> Tail(text)]
         [] c = "false" -> [ok |-> TRUE, v |-> Bool(FALSE), rest |-> Tail(text)]
         [] c = "\"" -> ParseChars(Tail(text), <<>>)
         [] IsDigit(c) -> ParseDigits(text, 0)
         [] c = "{" ->
              IF Len(text) > 1 /\ text[2] = "}"
              THEN [ok |-> TRUE, v |-> Obj(<<>>), rest |-> SubSeq(text, 3, Len(text))]
              ELSE ParseMembers(Tail(text), <<>>)
         [] OTHER -> ParseFail
JSONparse(text) ==
  LET r == ParseValue(text) IN
  IF r.ok /\ r.rest = <<>> THEN [ok |-> TRUE, v |-> r.v] ELSE ParseFail

----------------------------------------------------------------------------
\* The program's constants and tables.

BASE_URL == "https://api.propertydata.co.uk"

\* const tools: one descriptor per tool (name and inputSchema; the
\* descriptions are free text and play no part in dispatch).
tools ==
  <<
    [name |-> "address_match_uprn", properties |-> <<[key |-> "address", type |-> "string"]>>, required |-> <<"address">>],
    [name |-> "get_uprn_data", properties |-> <<[key |-> "uprn", type |-> "string"]>>, required |-> <<"uprn">>],
    [name |-> "get_uprns", properties |-> <<[key |-> "postcode", type |-> "string"]>>, required |-> <<"postcode">>],
    [name |-> "get_uprn_title", properties |-> <<[key |-> "uprn", type |-> "string"]>>, required |-> <<"uprn">>],
    [name |-> "get_title_data", properties |-> <<[key |-> "postcode", type |-> "string"]>>, required |-> <<"postcode">>],
    [name |-> "get_title_use_class", properties |-> <<[key |-> "postcode", type |-> "string"]>>, required |-> <<"postcode">>],
    [name |-> "get_estate_agents", properties |-> <<[key |-> "postcode", type |-> "string"]>>, required |-> <<"postcode">>],
    [name |-> "analyse_buildings", properties |-> <<[key |-> "postcode", type |-> "string"]>>, required |-> <<"postcode">>],
    [name |-> "get_area_type", properties |-> <<[key |-> "postcode", type |-> "string"]>>, required |-> <<"postcode">>],
    [name |-> "get_postcode_key_stats", properties |-> <<[key |-> "postcode", type |-> "string"]>>, required |-> <<"postcode">>],
    [name |-> "get_demographics", properties |-> <<[key |-> "postcode", type |-> "string"]>>, required |-> <<"postcode">>],
    [name |-> "get_population_data", properties |-> <<[key |-> "postcode", type |-> "string"]>>, required |-> <<"postcode">>],
    [name |-> "get_household_income", properties |-> <<[key |-> "postcode", type |-> "string"]>>, required |-> <<"postcode">>],
    [name |-> "get_politics_data", properties |-> <<[key |-> "postcode", type |-> "string"]>>, required |-> <<"postcode">>],
    [name |-> "get_prices", properties |-> <<[key |-> "postcode", type |-> "string"]>>, required |-> <<"postcode">>],
    [name |-> "get_prices_per_sqf", properties |-> <<[key |-> "postcode", type |-> "string"]>>, required |-> <<"postcode">>],
    [name |-> "get_sold_prices", properties |-> <<[key |-> "postcode", type |-> "string"]>>, required |-> <<"postcode">>],
    [name |-> "get_sold_prices_per_sqf", properties |-> <<[key |-> "postcode", type |-> "string"]>>, required |-> <<"postcode">>],
    [name |-> "get_valuation_sale", properties |-> <<[key |-> "postcode", type |-> "string"], [key |-> "address", type |-> "string"]>>, required |-> <<"postcode">>],
    [name |-> "get_valuation_rent", properties |-> <<[key |-> "postcode", type |-> "string"], [key |-> "address", type |-> "string"]>>, required |-> <<"postcode">>],
    [name |-> "get_valuation_hmo", properties |-> <<[key |-> "postcode", type |-> "string"], [key |-> "address", type |-> "string"]>>, required |-> <<"postcode">>],
    [name |-> "get_valuation_historical", properties |-> <<[key |-> "postcode", type |-> "string"], [key |-> "address", type |-> "string"]>>, required |-> <<"postcode">>],
    [name |-> "get_growth_data", properties |-> <<[key |-> "postcode", type |-> "string"]>>, required |-> <<"postcode">>],
    [name |-> "get_growth_psf", properties |-> <<[key |-> "postcode", type |-> "string"]>>, required |-> <<"postcode">>],
    [name |-> "get_rental_demand", properties |-> <<[key |-> "postcode", type |-> "string"]>>, required |-> <<"postcode">>],
    [name |-> "get_rental_demand_rent", properties |-> <<[key |-> "postcode", type |-> "string"]>>, required |-> <<"postcode">>],
    [name |-> "get_rents", properties |-> <<[key |-> "postcode", type |-> "string"]>>, required |-> <<"postcode">>],
    [name |-> "get_rents_hmo", properties |-> <<[key |-> "postcode", type |-> "string"]>>, required |-> <<"postcode">>],
    [name |-> "get_yields", properties |-> <<[key |-> "postcode", type |-> "string"]>>, required |-> <<"postcode">>],
    [name |-> "get_lha_rate", properties |-> <<[key |-> "postcode", type |-> "string"]>>, required |-> <<"postcode">>],
    [name |-> "get_sourced_properties", properties |-> <<[key |-> "postcode", type |-> "string"]>>, required |-> <<"postcode">>],
    [name |-> "get_sourced_property", properties |-> <<[key |-> "uprn", type |-> "string"]>>, required |-> <<"uprn">>],
    [name |-> "development_calculator", properties |-> <<[key |-> "postcode", type |-> "string"], [key |-> "build_cost", type |-> "number"], [key |-> "land_cost", type |-> "number"]>>, required |-> <<"postcode">>],
    [name |-> "get_development_gdv", properties |-> <<[key |-> "postcode", type |-> "string"]>>, required |-> <<"postcode">>],
    [name |-> "get_build_cost", properties |-> <<[key |-> "postcode", type |-> "string"]>>, required |-> <<"postcode">>],
    [name |-> "get_rebuild_cost", properties |-> <<[key |-> "postcode", type |-> "string"]>>, required |-> <<"postcode">>],
    [name |-> "get_planning_applications", properties |-> <<[key |-> "postcode", type |-> "string"]>>, required |-> <<"postcode">>],
    [name |-> "get_conservation_area", properties |-> <<[key |-> "postcode", type |-> "string"]>>, required |-> <<"postcode">>],
    [name |-> "get_listed_buildings", properties |-> <<[key |-> "postcode", type |-> "string"]>>, required |-> <<"postcode">>],
    [name |-> "get_green_belt", properties |-> <<[key |-> "postcode", type |-> "string"]>>, required |-> <<"postcode">>],
    [name |-> "get_aonb_data", properties |-> <<[key |-> "postcode", type |-> "string"]>>, required |-> <<"postcode">>],
    [name |-> "get_national_park", properties |-> <<[key |-> "postcode", type |-> "string"]>>, required |-> <<"postcode">>],
    [name |-> "get_council_tax", properties |-> <<[key |-> "postcode", type |-> "string"]>>, required |-> <<"postcode">>],
    [name |-> "mortgage_calculator", properties |-> <<[key |-> "loan_amount", type |-> "number"], [key |-> "deposit", type |-> "number"], [key |-> "interest_rate", type |-> "number"], [key |-> "term_years", type |-> "integer"]>>, required |-> <<"loan_amount", "deposit", "interest_rate", "term_years">>],
    [name |-> "get_mortgage_rates", properties |-> <<[key |-> "postcode", type |-> "string"]>>, required |-> <<"postcode">>],
    [name |-> "stamp_duty_calculator", properties |-> <<[key |-> "property_value", type |-> "number"], [key |-> "first_time_buyer", type |-> "boolean"]>>, required |-> <<"property_value">>],
    [name |-> "get_floor_areas", properties |-> <<[key |-> "postcode", type |-> "string"]>>, required |-> <<"postcode">>],
    [name |-> "get_freeholds", properties |-> <<[key |-> "postcode", type |-> "string"]>>, required |-> <<"postcode">>],
    [name |-> "get_energy_efficiency", properties |-> <<[key |-> "postcode", type |-> "string"]>>, required |-> <<"postcode">>],
    [name |-> "get_flood_risk", properties |-> <<[key |-> "postcode", type |-> "string"]>>, required |-> <<"postcode">>],
    [name |-> "get_crime_data", properties |-> <<[key |-> "postcode", type |-> "string"]>>, required |-> <<"postcode">>],
    [name |-> "get_schools_data", properties |-> <<[key |-> "postcode", type |-> "string"]>>, required |-> <<"postcode">>],
    [name |-> "get_ptal_data", properties |-> <<[key |-> "postcode", type |-> "string"]>>, required |-> <<"postcode">>],
    [name |-> "get_restaurants", properties |-> <<[key |-> "postcode", type |-> "string"]>>, required |-> <<"postcode">>],
    [name |-> "get_internet_speed", properties |-> <<[key |-> "postcode", type |-> "string"]>>, required |-> <<"postcode">>],
    [name |-> "get_national_hmo_register", properties |-> <<[key |-> "postcode", type |-> "string"]>>, required |-> <<"postcode">>],
    [name |-> "get_land_registry_documents", properties |-> <<[key |-> "postcode", type |-> "string"]>>, required |-> <<"postcode">>],
    [name |-> "get_site_plan_documents", properties |-> <<[key |-> "postcode", type |-> "string"]>>, required |-> <<"postcode">>],
    [name |-> "get_account_credits", properties |-> <<>>, required |-> <<>>],
    [name |-> "get_account_documents", properties |-> <<>>, required |-> <<>>]
  >>

toolHandlers ==
  <<
    [name |-> "address_match_uprn", endpoint |-> "/address-match-uprn", keys |-> <<"address">>],
    [name |-> "get_uprn_data", endpoint |-> "/uprn", keys |-> <<"uprn">>],
    [name |-> "get_uprns", endpoint |-> "/uprns", keys |-> <<"postcode">>],
    [name |-> "get_uprn_title", endpoint |-> "/uprn-title", keys |-> <<"uprn">>],
    [name |-> "get_title_data", endpoint |-> "/title", keys |-> <<"postcode">>],
    [name |-> "get_title_use_class", endpoint |-> "/title-use-class", keys |-> <<"postcode">>],
    [name |-> "get_estate_agents", endpoint |-> "/agents", keys |-> <<"postcode">>],
    [name |-> "analyse_buildings", endpoint |-> "/analyse-buildings", keys |-> <<"postcode">>],
    [name |-> "get_area_type", endpoint |-> "/area-type", keys |-> <<"postcode">>],
    [name |-> "get_postcode_key_stats", endpoint |-> "/postcode-key-stats", keys |-> <<"postcode">>],
    [name |-> "get_demographics", endpoint |-> "/demographics", keys |-> <<"postcode">>],
    [name |-> "get_population_data", endpoint |-> "/population", keys |-> <<"postcode">>],
    [name |-> "get_household_income", endpoint |-> "/household-income", keys |-> <<"postcode">>],
    [name |-> "get_politics_data", endpoint |-> "/politics", keys |-> <<"postcode">>],
    [name |-> "get_prices", endpoint |-> "/prices", keys |-> <<"postcode">>],
    [name |-> "get_prices_per_sqf", endpoint |-> "/prices-per-sqf", keys |-> <<"postcode">>],
    [name |-> "get_sold_prices", endpoint |-> "/sold-prices", keys |-> <<"postcode">>],
    [name |-> "get_sold_prices_per_sqf", endpoint |-> "/sold-prices-per-sqf", keys |-> <<"postcode">>],
    [name |-> "get_valuation_sale", endpoint |-> "/valuation-sale", keys |-> <<"postcode", "address">>],
    [name |-> "get_valuation_rent", endpoint |-> "/valuation-rent", keys |-> <<"postcode", "address">>],
    [name |-> "get_valuation_hmo", endpoint |-> "/valuation-hmo", keys |-> <<"postcode", "address">>],
    [name |-> "get_valuation_historical", endpoint |-> "/valuation-historical", keys |-> <<"postcode", "address">>],
    [name |-> "get_growth_data", endpoint |-> "/growth", keys |-> <<"postcode">>],
    [name |-> "get_growth_psf", endpoint |-> "/growth-psf", keys |-> <<"postcode">>],
    [name |-> "get_rental_demand", endpoint |-> "/demand", keys |-> <<"postcode">>],
    [name |-> "get_rental_demand_rent", endpoint |-> "/demand-rent", keys |-> <<"postcode">>],
    [name |-> "get_rents", endpoint |-> "/rents", keys |-> <<"postcode">>],
    [name |-> "get_rents_hmo", endpoint |-> "/rents-hmo", keys |-> <<"postcode">>],
    [name |-> "get_yields", endpoint |-> "/yields", keys |-> <<"postcode">>],
    [name |-> "get_lha_rate", endpoint |-> "/lha-rate", keys |-> <<"postcode">>],
    [name |-> "get_sourced_properties", endpoint |-> "/sourced-properties", keys |-> <<"postcode">>],
    [name |-> "get_sourced_property", endpoint |-> "/sourced-property", keys |-> <<"uprn">>],
    [name |-> "development_calculator", endpoint |-> "/development-calculator", keys |-> <<"postcode", "build_cost", "land_cost">>],
    [name |-> "get_development_gdv", endpoint |-> "/development-gdv", keys |-> <<"postcode">>],
    [name |-> "get_build_cost", endpoint |-> "/build-cost", keys |-> <<"postcode">>],
    [name |-> "get_rebuild_cost", endpoint |-> "/rebuild-cost", keys |-> <<"postcode">>],
    [name |-> "get_planning_applications", endpoint |-> "/planning-applications", keys |-> <<"postcode">>],
    [name |-> "get_conservation_area", endpoint |-> "/conservation-area", keys |-> <<"postcode">>],
    [name |-> "get_listed_buildings", endpoint |-> "/listed-buildings", keys |-> <<"postcode">>],
    [name |-> "get_green_belt", endpoint |-> "/green-belt", keys |-> <<"postcode">>],
    [name |-> "get_aonb_data", endpoint |-> "/aonb", keys |-> <<"postcode">>],
    [name |-> "get_national_park", endpoint |-> "/national-park", keys |-> <<"postcode">>],
    [name |-> "get_council_tax", endpoint |-> "/council-tax", keys |-> <<"postcode">>],
    [name |-> "mortgage_calculator", endpoint |-> "/mortgage-calculator", keys |-> <<"loan_amount", "deposit", "interest_rate", "term_years">>],
    [name |-> "get_mortgage_rates", endpoint |-> "/mortgage-rates", keys |-> <<"postcode">>],
    [name |-> "stamp_duty_calculator", endpoint |-> "/stamp-duty-calculator", keys |-> <<"property_value", "first_time_buyer">>],
    [name |-> "get_floor_areas", endpoint |-> "/floor-areas", keys |-> <<"postcode">>],
    [name |-> "get_freeholds", endpoint |-> "/freeholds", keys |-> <<"postcode">>],
    [name |-> "get_energy_efficiency", endpoint |-> "/energy-efficiency", keys |-> <<"postcode">>],
    [name |-> "get_flood_risk", endpoint |-> "/flood-risk", keys |-> <<"postcode">>],
    [name |-> "get_crime_data", endpoint |-> "/crime", keys |-> <<"postcode">>],
    [name |-> "get_schools_data", endpoint |-> "/schools", keys |-> <<"postcode">>],
    [name |-> "get_ptal_data", endpoint |-> "/ptal", keys |-> <<"postcode">>],
    [name |-> "get_restaurants", endpoint |-> "/restaurants", keys |-> <<"postcode">>],
    [name |-> "get_internet_speed", endpoint |-> "/internet-speed", keys |-> <<"postcode">>],
    [name |-> "get_national_hmo_register", endpoint |-> "/national-hmo-register", keys |-> <<"postcode">>],
    [name |-> "get_land_registry_documents", endpoint |-> "/land-registry-documents", keys |-> <<"postcode">>],
    [name |-> "get_site_plan_documents", endpoint |-> "/site-plan-documents", keys |-> <<"postcode">>],
    [name |-> "get_account_credits", endpoint |-> "/account/credits", keys |-> <<>>],
    [name |-> "get_account_documents", endpoint |-> "/account/documents", keys |-> <<>>]
  >>
ToolNames == {tools[i].name : i \in 1..Len(tools)}
\* (a variant in which the last catalog entry has no handler)
HandlerNamesButLast == {toolHandlers[i].name : i \in 1..(Len(toolHandlers) - 1)}
HandlerNames == {toolHandlers[i].name : i \in 1..Len(toolHandlers)}
\* (a variant whose handlers forward their first key only)
HandlerRowFirstKey(name) ==
  LET row == toolHandlers[CHOOSE i \in 1..Len(toolHandlers) : toolHandlers[i].name = name]
  IN [row EXCEPT !.keys = IF Len(row.keys) > 1 THEN <<row.keys[1]>> ELSE row.keys]
HandlerRow(name) ==
  toolHandlers[CHOOSE i \in 1..Len(toolHandlers) : toolHandlers[i].name = name]
Descriptor(name) == tools[CHOOSE i \in 1..Len(tools) : tools[i].name = name]

\* What every object literal inherits from Object.prototype.
ObjectPrototypeKeys == {"constructor", "toString", "hasOwnProperty", "__proto__"}

\* toolHandlers[name]: an own entry, else the inherited member, else undefined.
Lookup(name) ==
  IF name \in HandlerNames THEN [kind |-> "own", row |-> HandlerRow(name)]
  ELSE IF name \in ObjectPrototypeKeys THEN [kind |-> "inherited", member |-> name]
  ELSE [kind |-> "undefined"]

\* The params object a handler passes to propertydataCall: its keys in the
\* order of the handler's object literal, each with args.<key>.
\* (a variant that forwards the whole arguments object)
HandlerParamsSpread(row, args) == args.o
HandlerParams(row, args) ==
  [i \in 1..Len(row.keys) |-> <<row.keys[i], Get(args.o, row.keys[i])>>]

\* Object.entries(params).forEach: the entries appended to the query.
\* (a variant that drops null only)
AppendedUnlessNull(v) == v # Null
\* (a variant that appends truthy values only)
AppendedTruthy(v) == v \notin {Null, Undefined, Bool(FALSE), Num(0), Str(<<>>)}
Appended(v) == v # Null /\ v # Undefined
RECURSIVE SelectAppended(_)
SelectAppended(params) ==
  IF params = <<>> THEN <<>>
  ELSE IF Appended(Head(params)[2])
       THEN <<Head(params)>> \o SelectAppended(Tail(params))
       ELSE SelectAppended(Tail(params))
ParamsThrow(params) ==
  \E i \in 1..Len(params) : Appended(params[i][2]) /\ StringThrows(params[i][2])

\* url.toString() after the credential and the entries were appended.
RECURSIVE QueryTail(_)
QueryTail(entries) ==
  IF entries = <<>> THEN <<>>
  ELSE <<"&">> \o UrlEncode(<<Head(entries)[1]>>) \o <<"=">>
       \o UrlEncode(String(Head(entries)[2])) \o QueryTail(Tail(entries))
RequestUrl(endpoint, key, params) ==
  <<BASE_URL, endpoint, "?", "key", "=">> \o UrlEncode(String(key))
  \o QueryTail(SelectAppended(params))

\* response.ok
ResponseOk(status) == 200 <= status /\ status <= 299

\* The value propertydataCall resolves to, once the fetch has settled.
ErrorResult(text) == Obj(<< <<"error", Str(text)>> >>)
FetchFailure(e) == ErrorResult(<<"Request failed: ">> \o ErrorText(e))
\* (a variant that leaves the status out of the message)
ApiFailureNoStatus(status, body) == ErrorResult(<<"API Error: ">> \o body)
ApiFailure(status, body) ==
  ErrorResult(<<"API Error ">> \o NumberToString(status) \o <<": ">> \o body)
propertydataResult(response, parseError) ==
  IF response.kind = "rejected" THEN FetchFailure(response.error)
  ELSE IF ~ResponseOk(response.status) THEN ApiFailure(response.status, response.body)
  ELSE IF JSONparse(response.body).ok THEN JSONparse(response.body).v
  ELSE FetchFailure(parseError)

\* The two envelopes of the call_tool handler, and its thrown error.
TextContent(text) == <<[type |-> "text", text |-> text]>>
\* (a variant that flags a result carrying an error field)
ResultEnvelopeFlagging(result) ==
  IF result.t = "obj" /\ HasOwn(result.o, "error")
  THEN [content |-> TextContent(JSONstringify(result)), isError |-> TRUE]
  ELSE [content |-> TextContent(JSONstringify(result))]
ResultEnvelope(result) == [content |-> TextContent(JSONstringify(result))]
ErrorEnvelope(e) ==
  [content |-> TextContent(<<"Error: ">> \o ErrorText(e)), isError |-> TRUE]
UnknownTool(name) == Err("Error", <<"Unknown tool: ", name>>)

NoOutcome == [kind |-> "none"]
Rejected(e) == [kind |-> "rejected", error |-> e]
Returned(envelope) == [kind |-> "envelope", envelope |-> envelope]

\* Calling an inherited member as handler(args || {}), with no receiver.
InheritedOutcome(member, args) ==
  CASE member = "constructor" -> Returned(ResultEnvelope(args))
    [] member = "toString" -> Returned(ResultEnvelope(Str(<<"[object Undefined]">>)))
    [] member = "hasOwnProperty" ->
         Returned(ErrorEnvelope(Err("TypeError",
                                    <<"Cannot convert undefined or null to object">>)))
    [] member = "__proto__" ->
         Returned(ErrorEnvelope(Err("TypeError", <<"handler is not a function">>)))

----------------------------------------------------------------------------
\* The environment: the credential, the requests the client sends and the
\* answers of the remote API.

ValidKey == Str(<<"K", "3", "Y">>)
EnvKeys == {Undefined, Str(<<>>), ValidKey}

SW1A1AA == <<"S", "W", "1", "A", " ", "1", "A", "A">>
Smuggle == <<"/", "#", "x", "&", "k", "e", "y", "=", "z">>
NoToString == Obj(<< <<"toString", Num(1)>> >>)
ArgValues ==
  {Null, Bool(FALSE), Num(0), Num(500000), Str(<<>>), Str(SW1A1AA), Str(Smuggle),
   NoToString}

\* The keys a request may carry for a name: the keys its handler reads, then
\* "key", which no handler reads.
ArgKeys(name) ==
  IF name \in HandlerNames THEN HandlerRow(name).keys \o <<"key">>
  ELSE <<"postcode", "key">>

RECURSIVE Pick(_, _, _, _)
Pick(ks, I, f, i) ==
  IF i > Len(ks) THEN <<>>
  ELSE (IF i \in I THEN << <<ks[i], f[i]>> >> ELSE <<>>) \o Pick(ks, I, f, i + 1)

\* The arguments of a request: none at all, or an object of at most MaxArgs
\* of the keys, listed in the order of ArgKeys.
ArgObjects(ks) ==
  UNION {{Obj(Pick(ks, I, f, 1)) : f \in [I -> ArgValues]} :
           I \in {J \in SUBSET (1..Len(ks)) : Cardinality(J) <= MaxArgs}}
RequestArgs(name) == {Undefined} \cup ArgObjects(ArgKeys(name))
RequestNames == ToolNames \cup ObjectPrototypeKeys \cup {"nonexistent_tool"}

\* A client that keeps several requests open sends these.
PipelinedNames == {"get_prices", "nonexistent_tool"}
PipelinedArgs == {Undefined, Obj(<< <<"postcode", Str(SW1A1AA)>> >>)}

Statuses == {200, 299, 404, 500}
BodyPrices ==
  <<"{", "\"", "prices", "\"", ":", "{", "\"", "average", "\"", ":",
    "5", "0", "0", "0", "0", "0", "}", "}">>
BodyError == <<"{", "\"", "error", "\"", ":", "\"", "no data", "\"", "}">>
BodyNotFound == <<"not found">>
Bodies == {BodyPrices, BodyError, BodyNotFound}
\* The answers to a client that keeps several requests open.
PipelinedStatuses == {200, 404}
PipelinedBodies == {BodyPrices, BodyNotFound}

FetchErrors ==
  {Err("FetchError", <<"request failed, reason: connect ECONNREFUSED">>)}
JsonErrors ==
  {Err("SyntaxError", <<"Unexpected token in JSON">>),
   Err("FetchError", <<"invalid json response body">>)}
ConnectErrors == {Err("Error", <<"transport already started">>)}

----------------------------------------------------------------------------
VARIABLES
  API_KEY,    \* process.env.PROPERTYDATA_API_KEY
  workload,   \* "serial": one request open at a time; "pipelined": several
  pc,         \* "load", "main" (main() awaits server.connect), "serving", "exited"
  exit,       \* <<>> while the process runs, <<code>> once process.exit(code) ran
  stderr,     \* the lines console.error has written, each a text
  connected,  \* the stdio transport is bound to the server
  listReply,  \* the reply to a list_tools request, until the transport sends it
  calls       \* the call_tool requests open on the transport

vars == <<API_KEY, workload, pc, exit, stderr, connected, listReply, calls>>

Slots == 1..MaxInFlight
NoResponse == [kind |-> "none"]
IdleCall ==
  [pc |-> "idle", name |-> "", args |-> Undefined, fetches |-> <<>>,
   response |-> NoResponse, outcome |-> NoOutcome]

Truthy(v) == v # Undefined /\ v # Str(<<>>)

InitWith(w) ==
  /\ API_KEY \in EnvKeys
  /\ workload = w
  /\ pc = "load"
  /\ exit = <<>>
  /\ stderr = <<>>
  /\ connected = FALSE
  /\ listReply = <<>>
  /\ calls = [i \in Slots |-> IdleCall]

Init == InitWith("serial")

\* (a variant whose credential check reports and goes on)
LoadModuleNoExit ==
  /\ pc = "load"
  /\ stderr' = IF ~Truthy(API_KEY)
               THEN stderr \o
                      <<<<"ERROR: PROPERTYDATA_API_KEY environment variable is required">>,
                        <<"Please set it in your Claude Desktop config">>>>
               ELSE stderr
  /\ pc' = "main"
  /\ UNCHANGED <<API_KEY, workload, exit, connected, listReply, calls>>

\* Module evaluation up to main(): the credential check (lines 19-26), then
\* the server and its two handlers are set up and main() is called.
LoadModule ==
  /\ pc = "load"
  /\ IF ~Truthy(API_KEY)
     THEN /\ stderr' = stderr \o
                <<<<"ERROR: PROPERTYDATA_API_KEY environment variable is required">>,
                  <<"Please set it in your Claude Desktop config">>>>
          /\ exit' = <<1>>
          /\ pc' = "exited"
     ELSE /\ pc' = "main"
          /\ UNCHANGED <<stderr, exit>>
  /\ UNCHANGED <<API_KEY, workload, connected, listReply, calls>>

\* main(): server.connect(transport) resolves.
Connect ==
  /\ pc = "main"
  /\ connected' = TRUE
  /\ stderr' = Append(stderr, <<"PropertyData MCP Server running on stdio">>)
  /\ pc' = "serving"
  /\ UNCHANGED <<API_KEY, workload, exit, listReply, calls>>

\* main().catch: server.connect(transport) rejects.
ConnectFails(e) ==
  /\ pc = "main"
  /\ stderr' = Append(stderr, <<"Server error: ">> \o ErrorText(e))
  /\ exit' = <<1>>
  /\ pc' = "exited"
  /\ UNCHANGED <<API_KEY, workload, connected, listReply, calls>>

\* A serial client has one request open at a time, list_tools or call_tool.
AllIdle == \A j \in 1..MaxInFlight : calls[j].pc = "idle"

\* (a variant that leaves out the tools with a call open)
ListToolsSkipBusy ==
  /\ pc = "serving"
  /\ listReply = <<>>
  /\ workload = "serial" => AllIdle
  /\ listReply' =
       <<[tools |-> SelectSeq(tools,
                      LAMBDA t : \A j \in 1..MaxInFlight : calls[j].name # t.name)]>>
  /\ UNCHANGED <<API_KEY, workload, pc, exit, stderr, connected, calls>>

\* The list_tools handler.
ListTools ==
  /\ pc = "serving"
  /\ listReply = <<>>
  /\ workload = "serial" => AllIdle
  /\ listReply' = <<[tools |-> tools]>>
  /\ UNCHANGED <<API_KEY, workload, pc, exit, stderr, connected, calls>>

\* (a variant that issues the request twice)
FetchesTwice(url) == <<url, url>>
\* fetch(url.toString()), line 43: the requests one propertydataCall makes.
Fetches(url) == <<url>>

\* args || {}
ArgsOrEmpty(args) == IF args = Undefined THEN Obj(<<>>) ELSE args

\* The call_tool handler from the request to its first suspension: the
\* lookup (lines 878-883), then the handler and propertydataCall up to the
\* await of fetch (lines 886, 33-43).  A throw of String(value) rejects the
\* promise of propertydataCall and lands in the handler's catch (895-905).
Dispatch(name, args, key) ==
  LET h == Lookup(name) IN
  IF h.kind = "undefined"
  THEN [pc |-> "done", fetches |-> <<>>, outcome |-> Rejected(UnknownTool(name))]
  ELSE IF h.kind = "inherited"
  THEN [pc |-> "done", fetches |-> <<>>,
        outcome |-> InheritedOutcome(h.member, ArgsOrEmpty(args))]
  ELSE LET params == HandlerParams(h.row, ArgsOrEmpty(args)) IN
       IF ParamsThrow(params)
       THEN [pc |-> "done", fetches |-> <<>>,
             outcome |-> Returned(ErrorEnvelope(StringError))]
       ELSE [pc |-> "awaiting",
             fetches |-> Fetches(RequestUrl(h.row.endpoint, key, params)),
             outcome |-> NoOutcome]

\* (a variant without the try/catch of propertydataCall: a rejected fetch
\* reaches the handler's catch)
SettleFetchUncaught(response, parseError) ==
  IF response.kind = "rejected" THEN Returned(ErrorEnvelope(response.error))
  ELSE Returned(ResultEnvelope(propertydataResult(response, parseError)))
\* (a variant whose response.json() is not awaited inside the try: a parse
\* failure reaches the handler's catch)
SettleParseUncaught(response, parseError) ==
  IF /\ response.kind = "response"
     /\ ResponseOk(response.status)
     /\ ~JSONparse(response.body).ok
  THEN Returned(ErrorEnvelope(parseError))
  ELSE Returned(ResultEnvelope(propertydataResult(response, parseError)))
\* The rest of the call once the fetch has settled (lines 45-53, 887-894).
Settle(response, parseError) ==
  Returned(ResultEnvelope(propertydataResult(response, parseError)))

\* The transport hands a request to the lowest free slot.
FreeSlot(i) ==
  /\ calls[i].pc = "idle"
  /\ \A j \in Slots : j < i => calls[j].pc # "idle"
  /\ workload = "serial" => (AllIdle /\ listReply = <<>>)

NamesOf(w) == IF w = "serial" THEN RequestNames ELSE PipelinedNames
ArgsOf(w, name) == IF w = "serial" THEN RequestArgs(name) ELSE PipelinedArgs
StatusesOf(w) == IF w = "serial" THEN Statuses ELSE PipelinedStatuses
BodiesOf(w) == IF w = "serial" THEN Bodies ELSE PipelinedBodies

\* (a variant in which an unknown tool name brings the process down)
CallToolFatal(i, name, args) ==
  LET d == Dispatch(name, args, API_KEY) IN
  IF d.outcome.kind = "rejected"
  THEN /\ stderr' = Append(stderr, ErrorText(d.outcome.error))
       /\ exit' = <<1>>
       /\ pc' = "exited"
       /\ UNCHANGED <<API_KEY, workload, connected, listReply, calls>>
  ELSE /\ calls' = [calls EXCEPT ![i] =
                     [pc |-> d.pc, name |-> name, args |-> args, fetches |-> d.fetches,
                      response |-> NoResponse, outcome |-> d.outcome]]
       /\ UNCHANGED <<API_KEY, workload, pc, exit, stderr, connected, listReply>>

\* The call_tool handler runs request (name, args) in slot i to its first
\* suspension or its end.
CallTool(i, name, args) ==
  /\ LET d == Dispatch(name, args, API_KEY) IN
     calls' = [calls EXCEPT ![i] =
                 [pc |-> d.pc, name |-> name, args |-> args, fetches |-> d.fetches,
                  response |-> NoResponse, outcome |-> d.outcome]]
  /\ UNCHANGED <<API_KEY, workload, pc, exit, stderr, connected, listReply>>

\* A call_tool request arrives.
Receive(i) ==
  /\ pc = "serving"
  /\ FreeSlot(i)
  /\ \E name \in NamesOf(workload) :
       \E args \in ArgsOf(workload, name) : CallTool(i, name, args)

\* The fetch of call i rejects: a network-level failure.
FetchRejects(i, e) ==
  /\ pc = "serving"
  /\ calls[i].pc = "awaiting"
  /\ LET r == [kind |-> "rejected", error |-> e] IN
     calls' = [calls EXCEPT ![i].pc = "done", ![i].response = r,
                            ![i].outcome = Settle(r, e)]
  /\ UNCHANGED <<API_KEY, workload, pc, exit, stderr, connected, listReply>>

\* (a variant that keeps the last response in a variable shared by the calls)
RespondShared(i, status, body, parseError) ==
  /\ pc = "serving"
  /\ calls[i].pc = "awaiting"
  /\ LET r == [kind |-> "response", status |-> status, body |-> body] IN
     calls' = [j \in Slots |->
                 IF calls[j].pc = "awaiting"
                 THEN [calls[j] EXCEPT !.pc = "done", !.response = r,
                                       !.outcome = Settle(r, parseError)]
                 ELSE calls[j]]
  /\ UNCHANGED <<API_KEY, workload, pc, exit, stderr, connected, listReply>>

\* The remote API answers call i; parseError is what response.json() throws
\* if the body is not JSON.
Respond(i, status, body, parseError) ==
  /\ pc = "serving"
  /\ calls[i].pc = "awaiting"
  /\ LET r == [kind |-> "response", status |-> status, body |-> body] IN
     calls' = [calls EXCEPT ![i].pc = "done", ![i].response = r,
                            ![i].outcome = Settle(r, parseError)]
  /\ UNCHANGED <<API_KEY, workload, pc, exit, stderr, connected, listReply>>

\* The transport sends the outcome of call i to the client.
Reply(i) ==
  /\ calls[i].pc = "done"
  /\ calls' = [calls EXCEPT ![i] = IdleCall]
  /\ UNCHANGED <<API_KEY, workload, pc, exit, stderr, connected, listReply>>

\* The transport sends the reply to list_tools to the client.
ReplyList ==
  /\ listReply # <<>>
  /\ listReply' = <<>>
  /\ UNCHANGED <<API_KEY, workload, pc, exit, stderr, connected, calls>>

Next ==
  \/ LoadModule
  \/ Connect
  \/ \E e \in ConnectErrors : ConnectFails(e)
  \/ ListTools
  \/ \E i \in Slots : Receive(i)
  \/ \E i \in Slots : \E e \in FetchErrors : FetchRejects(i, e)
  \/ \E i \in Slots : \E status \in StatusesOf(workload) :
       \E body \in BodiesOf(workload) : \E parseError \in JsonErrors : Respond(i, status, body, parseError)
  \/ \E i \in Slots : Reply(i)
  \/ ReplyList

Spec == Init /\ [][Next]_vars

\* The same program under a client that keeps several requests open.
InitPipelined == InitWith("pipelined")
SpecPipelined == InitPipelined /\ [][Next]_vars

----------------------------------------------------------------------------
\* Reading the state: the open calls, their requests and their envelopes.

Open(i) == calls[i].pc # "idle"
Done(i) == calls[i].pc = "done"
Envelope(i) == calls[i].outcome.envelope
IsEnvelope(i) == calls[i].outcome.kind = "envelope"
Flagged(env) == "isError" \in DOMAIN env
\* An envelope with exactly one part, a text part holding text, and no flag.
PlainEnvelope(env, text) ==
  /\ DOMAIN env = {"content"}
  /\ Len(env.content) = 1
  /\ env.content[1] = [type |-> "text", text |-> text]
\* The 2-space pretty print of {"error": message}, message already escaped.
PrettyError(escaped) ==
  <<"{", "\n", "  ", "\"", "error", "\"", ": ", "\"">> \o escaped \o <<"\"", "\n", "}">>
Escaped(text) == [k \in 1..Len(text) |-> JsonEscapeChunk(text[k])]
Answered(i) == Done(i) /\ calls[i].response.kind = "response"
Ok2xx(i) == calls[i].response.status \in 200..299

\* The query of a request URL, split at "&" and "=".
RECURSIVE SplitOn(_, _, _)
SplitOn(text, sep, acc) ==
  IF text = <<>> THEN <<acc>>
  ELSE IF Head(text) = sep THEN <<acc>> \o SplitOn(Tail(text), sep, <<>>)
  ELSE SplitOn(Tail(text), sep, Append(acc, Head(text)))
QueryPairs(url) == SplitOn(SubSeq(url, 4, Len(url)), "&", <<>>)
InQuery(url, key) ==
  LET pairs == QueryPairs(url) IN \E k \in 1..Len(pairs) : pairs[k][1] = key
Declared(name) ==
  {Descriptor(name).properties[k].key : k \in 1..Len(Descriptor(name).properties)}
Required(name) ==
  {Descriptor(name).required[k] : k \in 1..Len(Descriptor(name).required)}
\* The value a call supplies for a key: Undefined when the key is absent or
\* the call has no arguments object.
Supplied(i, key) == Get(ArgsOrEmpty(calls[i].args).o, key)

----------------------------------------------------------------------------
\* C1: every call_tool whose name is not in the tool catalog is rejected with
\* the error "Unknown tool: <name>", returns no envelope and makes no
\* outbound request.
C1_UnknownToolRejected ==
  \A i \in Slots :
    (Open(i) /\ calls[i].name \notin ToolNames) =>
      /\ Done(i)
      /\ calls[i].outcome = Rejected(Err("Error", <<"Unknown tool: ", calls[i].name>>))
      /\ calls[i].fetches = <<>>

\* C2: a non-2xx answer with status S and body B yields an envelope with one
\* text part, the pretty-printed {"error": "API Error S: B"}, and no isError.
C2_ApiErrorAsContent ==
  \A i \in Slots :
    (Answered(i) /\ ~Ok2xx(i)) =>
      /\ IsEnvelope(i)
      /\ PlainEnvelope(Envelope(i),
           PrettyError(<<"API Error ">> \o NumberToString(calls[i].response.status)
                       \o <<": ">> \o Escaped(calls[i].response.body)))
      /\ (calls[i].response.status = 404 /\ calls[i].response.body = <<"not found">>) =>
           Envelope(i).content[1].text =
             <<"{", "\n", "  ", "\"", "error", "\"", ": ", "\"",
               "API Error ", "4", "0", "4", ": ", "not found", "\"", "\n", "}">>
C2_Witness ==
  \E i \in Slots :
    /\ Answered(i)
    /\ calls[i].response.status = 404
    /\ calls[i].response.body = <<"not found">>
    /\ IsEnvelope(i)

\* C3: a rejected fetch is caught in the request executor: the call returns
\* an unflagged envelope whose text is the pretty-printed
\* {"error": "Request failed: <error>"}; nothing is thrown out of the call.
C3_NetworkFailureAsContent ==
  \A i \in Slots :
    (Done(i) /\ calls[i].response.kind = "rejected") =>
      /\ IsEnvelope(i)
      /\ PlainEnvelope(Envelope(i),
           PrettyError(<<"Request failed: ", calls[i].response.error.name, ": ">>
                       \o Escaped(calls[i].response.error.message)))
C3_Witness ==
  \E i \in Slots :
    Done(i) /\ calls[i].response.kind = "rejected" /\ IsEnvelope(i)

\* C4 as stated: a 2xx answer whose body is not JSON yields an envelope with
\* isError set and the text "Error: " followed by the exception description.
C4_ParseFailureFlagged ==
  \A i \in Slots :
    (Answered(i) /\ Ok2xx(i) /\ ~JSONparse(calls[i].response.body).ok) =>
      /\ IsEnvelope(i)
      /\ Flagged(Envelope(i))
      /\ \E e \in JsonErrors :
           Envelope(i).content[1].text = <<"Error: ", e.name, ": ">> \o e.message

\* C4, amended: a 2xx answer whose body is not JSON is caught by the request
\* executor like a network failure: the envelope is unflagged and its text
\* is the pretty-printed {"error": "Request failed: <exception>"}.
C4_ParseFailureAsContent ==
  \A i \in Slots :
    (Answered(i) /\ Ok2xx(i) /\ ~JSONparse(calls[i].response.body).ok) =>
      /\ IsEnvelope(i)
      /\ \E e \in JsonErrors :
           PlainEnvelope(Envelope(i),
             PrettyError(<<"Request failed: ", e.name, ": ">> \o Escaped(e.message)))
C4_Witness ==
  \E i \in Slots :
    /\ Answered(i) /\ Ok2xx(i)
    /\ calls[i].response.body = <<"not found">>
    /\ IsEnvelope(i)

\* C5: a 2xx answer with JSON body v yields an unflagged envelope with one
\* text part, the 2-space pretty print of v with nothing added, removed or
\* renamed, also when v has an error field.
C5_SuccessVerbatim ==
  \A i \in Slots :
    (Answered(i) /\ Ok2xx(i) /\ JSONparse(calls[i].response.body).ok) =>
      /\ IsEnvelope(i)
      /\ PlainEnvelope(Envelope(i), JSONstringify(JSONparse(calls[i].response.body).v))
      /\ calls[i].response.body = BodyPrices =>
           Envelope(i).content[1].text =
             <<"{", "\n", "  ", "\"", "prices", "\"", ": ", "{", "\n", "  ", "  ",
               "\"", "average", "\"", ": ", "5", "0", "0", "0", "0", "0", "\n",
               "  ", "}", "\n", "}">>
      /\ calls[i].response.body = BodyError =>
           Envelope(i).content[1].text =
             <<"{", "\n", "  ", "\"", "error", "\"", ": ", "\"", "no data", "\"",
               "\n", "}">>
C5_Witness ==
  \E i \in Slots :
    /\ Answered(i) /\ Ok2xx(i)
    /\ calls[i].response.body = BodyError
    /\ IsEnvelope(i) /\ ~Flagged(Envelope(i))

\* C6 as stated: every call that resolves to a catalog tool issues exactly
\* one outbound GET, whatever its outcome.
C6_ExactlyOneGet ==
  \A i \in Slots :
    (Open(i) /\ calls[i].name \in ToolNames) => Len(calls[i].fetches) = 1

\* A declared parameter of the call is an object String() cannot convert.
Unconvertible(i) ==
  \E key \in Declared(calls[i].name) :
    Supplied(i, key).t = "obj" /\ HasOwn(Supplied(i, key).o, "toString")

\* C6, amended: a call that resolves to a catalog tool issues at most one
\* outbound GET: exactly one, whatever the answer (no retry, no second
\* request, no envelope without a request), unless a declared argument is
\* an object that cannot be converted to a string; then no request is made
\* and the envelope is flagged "Error: TypeError: ...".
C6_OneGetUnlessUnconvertible ==
  \A i \in Slots :
    (Open(i) /\ calls[i].name \in ToolNames) =>
      IF Unconvertible(i)
      THEN /\ calls[i].fetches = <<>>
           /\ Done(i) /\ IsEnvelope(i) /\ Flagged(Envelope(i))
           /\ Envelope(i).content[1].text[1] = "Error: "
      ELSE /\ Len(calls[i].fetches) = 1
           /\ Done(i) => calls[i].response.kind # "none"
C6_Witness ==
  \E i \in Slots :
    /\ Done(i) /\ calls[i].name = "get_prices"
    /\ calls[i].response.kind = "rejected"
    /\ Len(calls[i].fetches) = 1

\* C7: in the outbound query of a call, a declared parameter that the call
\* supplies with a non-null value appears under its own key; one that is
\* absent, null or undefined does not appear; and no key carries an empty
\* value unless the call supplied the empty string for it.
C7_OmitAbsent ==
  \A i \in Slots :
    (Open(i) /\ calls[i].name \in ToolNames /\ calls[i].fetches # <<>>) =>
      \A key \in Declared(calls[i].name) :
        LET v == Supplied(i, key)
            pairs == QueryPairs(calls[i].fetches[1])
            sent == {k \in 1..Len(pairs) : pairs[k][1] = key}
        IN /\ v \notin {Null, Undefined} => sent # {}
           /\ v \in {Null, Undefined} => sent = {}
           /\ (\E k \in sent : Len(pairs[k]) <= 2) => v = Str(<<>>)
C7_Witness ==
  \E i \in Slots :
    /\ calls[i].name = "stamp_duty_calculator"
    /\ calls[i].args = Obj(<< <<"property_value", Num(500000)>> >>)
    /\ calls[i].fetches # <<>>
    /\ ~InQuery(calls[i].fetches[1], "first_time_buyer")
    /\ InQuery(calls[i].fetches[1], "property_value")

\* C8 as stated: get_prices with postcode "SW1A 1AA" requests
\* {base}/prices?key={credential}&postcode=SW1A%201AA.
C8_SpaceAsPercent20 ==
  \A i \in Slots :
    (/\ Open(i) /\ calls[i].name = "get_prices"
     /\ calls[i].args = Obj(<< <<"postcode", Str(SW1A1AA)>> >>)) =>
      calls[i].fetches =
        << <<"https://api.propertydata.co.uk", "/prices", "?", "key", "=">>
           \o API_KEY.s
           \o <<"&", "postcode", "=", "S", "W", "1", "A", "%20", "1", "A", "A">> >>

\* The expected query: after key=<credential>, the declared
\* parameters with a non-null value, in declaration order.
RECURSIVE ExpectedQuery(_, _)
ExpectedQuery(i, properties) ==
  IF properties = <<>> THEN <<>>
  ELSE (IF Supplied(i, Head(properties).key) \in {Null, Undefined} THEN <<>>
        ELSE <<"&", Head(properties).key, "=">>
             \o UrlEncode(String(Supplied(i, Head(properties).key))))
       \o ExpectedQuery(i, Tail(properties))

\* C8, amended: the outbound request of a resolved call is
\* GET base + path + "?" + query, the query starting with key=<credential>
\* followed by the mapped parameters in declaration order, the values
\* encoded as form data, so that a space becomes "+": get_prices with
\* postcode "SW1A 1AA" requests {base}/prices?key={credential}&postcode=SW1A+1AA.
C8_RequestShape ==
  \A i \in Slots :
    (Open(i) /\ calls[i].name \in ToolNames /\ calls[i].fetches # <<>>) =>
      /\ calls[i].fetches[1] =
           <<"https://api.propertydata.co.uk", HandlerRow(calls[i].name).endpoint,
             "?", "key", "=">>
           \o API_KEY.s \o ExpectedQuery(i, Descriptor(calls[i].name).properties)
      /\ (/\ calls[i].name = "get_prices"
          /\ calls[i].args = Obj(<< <<"postcode", Str(SW1A1AA)>> >>)) =>
           calls[i].fetches[1] =
             <<"https://api.propertydata.co.uk", "/prices", "?", "key", "=">>
             \o API_KEY.s
             \o <<"&", "postcode", "=", "S", "W", "1", "A", "+", "1", "A", "A">>
C8_Witness ==
  \E i \in Slots :
    /\ Open(i) /\ calls[i].name = "get_prices"
    /\ calls[i].args = Obj(<< <<"postcode", Str(SW1A1AA)>> >>)
    /\ calls[i].fetches # <<>>

\* C9: a call that omits a parameter its inputSchema requires never ends as
\* a success: it is rejected, or flagged, or carries a failure of the
\* request; it is never sent without the parameter and answered as a success.
C9_MissingRequiredNotSuccess ==
  \A i \in Slots :
    (/\ Done(i) /\ calls[i].name \in ToolNames
     /\ \E key \in Required(calls[i].name) : Supplied(i, key) \in {Null, Undefined}) =>
      ~(/\ calls[i].response.kind = "response"
        /\ Ok2xx(i)
        /\ JSONparse(calls[i].response.body).ok
        /\ IsEnvelope(i) /\ ~Flagged(Envelope(i)))

\* C10: with the credential absent, the process writes a diagnostic to
\* stderr and exits with status 1 before the transport is connected: no
\* list_tools or call_tool request is served and no request is sent.
C10_NoCredentialNoService ==
  API_KEY = Undefined =>
    /\ pc \in {"load", "exited"}
    /\ pc = "exited" => (exit = <<1>> /\ stderr # <<>>)
    /\ ~connected
    /\ listReply = <<>>
    /\ \A i \in Slots : calls[i] = IdleCall
C10_Witness == API_KEY = Undefined /\ pc = "exited" /\ exit = <<1>>

\* C11: list_tools always succeeds and its reply is the full catalog, in the
\* catalog's order and with its content, whatever call_tool requests were
\* handled before or are open: no call_tool changes the catalog.
C11_ListToolsStable ==
  /\ (pc = "serving" /\ listReply = <<>> /\ workload = "pipelined") => ENABLED ListTools
  /\ listReply # <<>> =>
       /\ listReply = <<[tools |-> tools]>>
       /\ Len(listReply[1].tools) = 60
       /\ listReply[1].tools[1].name = "address_match_uprn"
       /\ listReply[1].tools[15].name = "get_prices"
       /\ listReply[1].tools[60].name = "get_account_documents"
C11_Witness ==
  /\ listReply # <<>>
  /\ \E i \in Slots : calls[i].pc = "awaiting" /\ calls[i].name = "get_prices"
  /\ \E i \in Slots : Done(i) /\ calls[i].outcome.kind = "rejected"

\* Descriptors and handlers pair off one to one by name.
OneBindingEach ==
  /\ ToolNames = HandlerNames
  /\ Len(tools) = Len(toolHandlers)
  /\ \A n \in ToolNames :
       /\ Cardinality({k \in 1..Len(tools) : tools[k].name = n}) = 1
       /\ Cardinality({k \in 1..Len(toolHandlers) : toolHandlers[k].name = n}) = 1
\* C12: the names in the tool catalog and the keys of the handler table are
\* the same set, each name occurring once in either, so every catalog name
\* resolves to exactly one handler and is never answered "Unknown tool".
C12_CatalogMatchesHandlers ==
  /\ OneBindingEach
  /\ \A i \in Slots :
       (Open(i) /\ calls[i].name \in ToolNames) =>
         /\ Lookup(calls[i].name) = [kind |-> "own", row |-> HandlerRow(calls[i].name)]
         /\ calls[i].outcome.kind # "rejected"
              \/ calls[i].outcome.error # UnknownTool(calls[i].name)
C12_Witness ==
  \E i \in Slots :
    /\ calls[i].name = "get_account_documents"
    /\ calls[i].args = Undefined
    /\ calls[i].fetches # <<>>
    /\ Done(i) /\ IsEnvelope(i)

\* C13: every outbound request goes to the fixed host and the fixed path of
\* the tool called, and its query carries key exactly once, first, with the
\* credential read at start-up; no argument changes the host or the path,
\* adds a second key or replaces its value: the query has one pair for the
\* credential and one for each declared parameter supplied with a value,
\* and no raw delimiter from an argument.
C13_FixedTargetOneKey ==
  \A i \in Slots :
    calls[i].fetches # <<>> =>
      LET url == calls[i].fetches[1]
          pairs == QueryPairs(url)
          supplied == {key \in Declared(calls[i].name) :
                         Supplied(i, key) \notin {Null, Undefined}}
      IN /\ calls[i].name \in ToolNames
         /\ url[1] = "https://api.propertydata.co.uk"
         /\ url[2] = HandlerRow(calls[i].name).endpoint
         /\ url[3] = "?"
         /\ \A k \in 4..Len(url) : url[k] \notin {"?", "#", "/", "@", ":"}
         /\ pairs[1] = <<"key", "=">> \o API_KEY.s
         /\ API_KEY = ValidKey
         /\ {k \in 1..Len(pairs) : pairs[k][1] = "key"} = {1}
         /\ Len(pairs) = 1 + Cardinality(supplied)
         /\ \A k \in 1..Len(pairs) :
              {n \in 1..Len(pairs[k]) : pairs[k][n] = "="} = {2}
C13_Witness ==
  \E i \in Slots :
    /\ calls[i].name = "get_prices"
    /\ calls[i].args = Obj(<< <<"postcode", Str(Smuggle)>>, <<"key", Str(Smuggle)>> >>)
    /\ calls[i].fetches # <<>>

\* C14 as stated: once serving, nothing terminates the process, and the
\* process terminates itself only by the missing-credential check.
C14_OnlyCredentialExit ==
  /\ connected => (pc = "serving" /\ exit = <<>>)
  /\ pc = "exited" => ~Truthy(API_KEY)

\* C14, amended: once the server is serving, no outcome of call_tool or
\* list_tools (unknown tool, network failure, non-2xx, malformed body,
\* handler exception) terminates the process. The process terminates itself
\* only during start-up, with status 1 and before any request is served:
\* by the missing-credential check, or, with a credential, by the catch of
\* main() when connecting the transport fails, after writing "Server error:"
\* to stderr.
C14_ExitOnlyAtStartup ==
  /\ connected => (pc = "serving" /\ exit = <<>>)
  /\ pc # "exited" => exit = <<>>
  /\ pc = "exited" =>
       /\ exit = <<1>>
       /\ ~connected
       /\ listReply = <<>>
       /\ \A i \in Slots : calls[i] = IdleCall
       /\ \/ ~Truthy(API_KEY)
          \/ /\ Len(stderr) = 1
             /\ \E e \in ConnectErrors : stderr[1] = <<"Server error: ">> \o ErrorText(e)
C14_Witness ==
  /\ pc = "serving" /\ connected /\ exit = <<>>
  /\ \E i \in Slots : Done(i) /\ IsEnvelope(i) /\ Flagged(Envelope(i))

\* C15: with several call_tool invocations open and their responses arriving
\* in any order, every step of handling touches one invocation only and
\* writes nothing the invocations share (the credential is only read); what
\* an invocation requests follows from its own name and arguments, and its
\* envelope from those and the response to its own request.
C15_IndependentCalls ==
  [][/\ API_KEY' = API_KEY
     /\ \A i \in Slots :
          calls'[i] # calls[i] =>
            /\ \A j \in Slots \ {i} : calls'[j] = calls[j]
            /\ UNCHANGED <<pc, exit, stderr, connected, listReply>>
            /\ calls[i].pc = "idle" =>
                 LET d == Dispatch(calls'[i].name, calls'[i].args, API_KEY) IN
                 /\ calls'[i].pc = d.pc
                 /\ calls'[i].fetches = d.fetches
                 /\ calls'[i].outcome = d.outcome
            /\ calls[i].pc = "awaiting" =>
                 /\ calls'[i].pc = "done"
                 /\ calls'[i].name = calls[i].name
                 /\ calls'[i].args = calls[i].args
                 /\ calls'[i].fetches = calls[i].fetches
                 /\ calls'[i].response # NoResponse
                 /\ calls'[i].outcome \in
                      {Settle(calls'[i].response, e) : e \in JsonErrors}
            /\ calls[i].pc = "done" => calls'[i] = IdleCall]_vars
C15_Witness ==
  /\ calls[1].pc = "awaiting" /\ calls[1].name = "get_prices"
  /\ calls[2].pc = "done" /\ calls[2].name = "get_prices"
  /\ calls[2].response.kind = "response"
  /\ calls[1].args # calls[2].args

\* The descriptors agree with the handlers, tool by tool.
SchemaMatchesHandler ==
  \A k \in 1..Len(tools) :
    LET t == tools[k]
        keys == HandlerRow(t.name).keys
    IN /\ Cardinality({m \in 1..Len(tools) : tools[m].name = t.name}) = 1
       /\ Required(t.name) \subseteq Declared(t.name)
       /\ {keys[m] : m \in 1..Len(keys)} = Declared(t.name)
       /\ Len(keys) = Cardinality(Declared(t.name))
       /\ Len(t.properties) = Cardinality(Declared(t.name))
\* C16: every tool name occurs once in the catalog; every key a tool's
\* inputSchema requires is one of its properties; and the keys a tool's
\* handler forwards are the keys of its properties, so a request carries
\* every declared parameter the call supplies, under the same name.
C16_CatalogConsistent ==
  /\ SchemaMatchesHandler
  /\ \A i \in Slots :
       (Open(i) /\ calls[i].name \in ToolNames /\ calls[i].fetches # <<>>) =>
         LET pairs == QueryPairs(calls[i].fetches[1]) IN
         {pairs[k][1] : k \in 2..Len(pairs)} =
           {key \in Declared(calls[i].name) : Supplied(i, key) \notin {Null, Undefined}}
C16_Witness ==
  \E i \in Slots :
    /\ calls[i].name = "stamp_duty_calculator"
    /\ calls[i].args =
         Obj(<< <<"property_value", Num(500000)>>, <<"first_time_buyer", Str(SW1A1AA)>> >>)
    /\ calls[i].fetches # <<>>
    /\ InQuery(calls[i].fetches[1], "property_value")
    /\ InQuery(calls[i].fetches[1], "first_time_buyer")

\* C17: a name that is no catalog tool but names a property every object
\* inherits ("constructor", "toString", "hasOwnProperty", "__proto__") is
\* treated as an unknown tool: the call is rejected with "Unknown tool",
\* nothing is invoked as its handler, and it gets no envelope.
C17_InheritedNamesUnknown ==
  \A i \in Slots :
    \A name \in {"constructor", "toString", "hasOwnProperty", "__proto__"} \ ToolNames :
      (Open(i) /\ calls[i].name = name) =>
        /\ Lookup(name).kind = "undefined"
        /\ ~IsEnvelope(i)
        /\ calls[i].outcome = Rejected(UnknownTool(name))

\* C18: a declared parameter supplied with a falsy value other than null and
\* undefined is forwarded: false is sent as key=false, the number 0 as
\* key=0, the empty string as key= with nothing after it; a key is omitted
\* only when its value is null or undefined.
C18_FalsyForwarded ==
  \A i \in Slots :
    (Open(i) /\ calls[i].name \in ToolNames /\ calls[i].fetches # <<>>) =>
      LET pairs == QueryPairs(calls[i].fetches[1]) IN
      \A key \in Declared(calls[i].name) :
        LET v == Supplied(i, key)
            sent == {k \in 2..Len(pairs) : pairs[k][1] = key}
        IN /\ v = Bool(FALSE) => \E k \in sent : pairs[k] = <<key, "=", "false">>
           /\ v = Num(0) => \E k \in sent : pairs[k] = <<key, "=", "0">>
           /\ v = Str(<<>>) => \E k \in sent : pairs[k] = <<key, "=">>
           /\ sent = {} <=> v \in {Null, Undefined}
C18_Witness ==
  \E i \in Slots :
    /\ calls[i].name = "stamp_duty_calculator"
    /\ calls[i].args =
         Obj(<< <<"property_value", Num(0)>>, <<"first_time_buyer", Bool(FALSE)>> >>)
    /\ calls[i].fetches =
         << <<"https://api.propertydata.co.uk", "/stamp-duty-calculator", "?",
              "key", "=", "K", "3", "Y", "&", "property_value", "=", "0",
              "&", "first_time_buyer", "=", "false">> >>

\* The arguments of call i without the keys its tool does not declare.
DeclaredOnly(i) ==
  Obj(SelectSeq(ArgsOrEmpty(calls[i].args).o,
                LAMBDA p : p[1] \in Declared(calls[i].name)))
\* C19: argument keys the resolved tool does not declare are never forwarded:
\* the query holds key=<credential> and, after it, declared keys only; the
\* request is the one the call would make without its undeclared keys, so
\* for the account tools, and for a call without an arguments object, it is
\* base + path + "?key=" + credential whatever the arguments.
C19_UndeclaredNotForwarded ==
  \A i \in Slots :
    (Open(i) /\ calls[i].name \in ToolNames) =>
      /\ calls[i].fetches = Dispatch(calls[i].name, DeclaredOnly(i), API_KEY).fetches
      /\ calls[i].fetches # <<>> =>
           LET url == calls[i].fetches[1]
               pairs == QueryPairs(url)
               bare == <<"https://api.propertydata.co.uk",
                         HandlerRow(calls[i].name).endpoint, "?", "key", "=">>
                       \o API_KEY.s
           IN /\ pairs[1][1] = "key"
              /\ \A k \in 2..Len(pairs) : pairs[k][1] \in Declared(calls[i].name)
              /\ Declared(calls[i].name) = {} => url = bare
              /\ calls[i].args = Undefined => url = bare
C19_Witness ==
  \E i \in Slots :
    /\ calls[i].name = "get_account_credits"
    /\ calls[i].args = Obj(<< <<"key", Str(Smuggle)>> >>)
    /\ calls[i].fetches # <<>>

====
